---- MODULE Spec2Model ----
(***************************************************************************)
(* STRING-DB -> MCP bridge (src/stringmcp/main.py).                        *)
(*                                                                         *)
(* The server reads newline-delimited JSON-RPC from stdin, dispatches on   *)
(* `method`, optionally calls the STRING REST API through StringDBBridge   *)
(* and writes JSON-RPC responses to stdout.  One step of the model is one  *)
(* iteration of the `for raw in sys.stdin` loop of StringMCPServer.run.    *)
(*                                                                         *)
(* JSON values are tagged tuples; a JSON object is <<"obj", f>> where f is *)
(* a function from the keys that are present to their values, so that      *)
(* dict.get(k) and dict.get(k, default) are modelled on the presence of    *)
(* the key.  Texts the code builds are sequences of word tokens.           *)
(***************************************************************************)
EXTENDS Integers, Sequences, FiniteSets, TLC

\* ------------------------------------------------------------------------
\*  Bounds
\* ------------------------------------------------------------------------
MaxLines == 2

\* ------------------------------------------------------------------------
\*  JSON values (Python objects produced by json.loads)
\* ------------------------------------------------------------------------
None == <<"null">>
JInt(n) == <<"int", n>>
JStr(s) == <<"str", s>>
JBool(b) == <<"bool", b>>
JList(s) == <<"list", s>>
JObj(f) == <<"obj", f>>
JText(toks) == <<"text", toks>>
EmptyDict == JObj(<<>>)

IsDict(v) == v[1] = "obj"
IsList(v) == v[1] = "list"

\* dict.get(k): None when the key is absent
Get(v, k) == IF k \in DOMAIN v[2] THEN v[2][k] ELSE None
\* dict.get(k, d): d only when the key is absent (an explicit null stays None)
GetD(v, k, d) == IF k \in DOMAIN v[2] THEN v[2][k] ELSE d

\* Python truth value of a JSON value (`not ids`, `if species_b:` ...)
Truthy(v) ==
    CASE v[1] = "null" -> FALSE
      [] v[1] = "bool" -> v[2]
      [] v[1] = "int"  -> v[2] # 0
      [] v[1] = "str"  -> v[2] # ""
      [] v[1] = "list" -> Len(v[2]) > 0
      [] v[1] = "text" -> Len(v[2]) > 0
      [] v[1] = "obj"  -> DOMAIN v[2] # {}

\* str(x) as a word token, as used by the f-strings of the server
PyStr(v) ==
    CASE v[1] = "null" -> "None"
      [] v[1] = "str"  -> v[2]
      [] v[1] = "int"  -> ToString(v[2])
      [] v[1] = "bool" -> IF v[2] THEN "True" ELSE "False"
      [] OTHER         -> "<object>"

\* "%0d".join(identifiers): the items separated by the multi-value delimiter
Join(ids) ==
    JText([i \in 1..(IF Len(ids[2]) = 0 THEN 0 ELSE 2 * Len(ids[2]) - 1) |->
              IF i % 2 = 1 THEN ids[2][(i + 1) \div 2][2] ELSE "%0d"])

\* json.dumps(data) as a token sequence: scalars, then arrays and objects
RECURSIVE JsonDumps(_)
RECURSIVE DumpItems(_, _)
RECURSIVE DumpMembers(_, _)
DumpItems(s, i) ==
    IF i > Len(s) THEN <<>>
    ELSE (IF i > 1 THEN <<",">> ELSE <<>>) \o JsonDumps(s[i]) \o DumpItems(s, i + 1)
DumpMembers(f, keys) ==
    IF keys = {} THEN <<>>
    ELSE LET k == CHOOSE x \in keys : TRUE
         IN <<"\"", k, "\"", ":">> \o JsonDumps(f[k]) \o
            (IF keys \ {k} = {} THEN <<>> ELSE <<",">>) \o DumpMembers(f, keys \ {k})
JsonDumps(v) ==
    CASE v[1] = "null" -> <<"null">>
      [] v[1] = "bool" -> IF v[2] THEN <<"true">> ELSE <<"false">>
      [] v[1] = "int"  -> <<ToString(v[2])>>
      [] v[1] = "str"  -> <<"\"", v[2], "\"">>
      [] v[1] = "text" -> <<"\"">> \o v[2] \o <<"\"">>
      [] v[1] = "list" -> <<"[">> \o DumpItems(v[2], 1) \o <<"]">>
      [] v[1] = "obj"  -> <<"{">> \o DumpMembers(v[2], DOMAIN v[2]) \o <<"}">>

\* ------------------------------------------------------------------------
\*  StringConfig and the outcomes of one HTTP GET
\* ------------------------------------------------------------------------
version_url == "https://version-12-0.string-db.org/api"
caller_identity == "string_mcp_bridge"
delay == 1

Row == JObj(("stringId" :> JStr("9606.ENSP00000269305")) @@ ("score" :> JInt(42)))
Row2 == JObj(("stringId" :> JStr("9606.ENSP00000258149")) @@ ("score" :> JInt(7)))

\* (resp.json() of a 2xx response whose body is not JSON raises a
\* JSONDecodeError, a ValueError: outcome kind "badjson" of BridgeOutcomes.)
\* What session.get followed by raise_for_status can do: a 2xx response with
\* a JSON body (array or object), an HTTP error status, or no response at
\* all (connection error or timeout, recorded as status 0).
HttpOutcomes ==
    { [kind |-> "ok", status |-> 200, body |-> b] : b \in {JList(<<Row, Row2>>), Row} }
    \cup { [kind |-> "status", status |-> 404, body |-> None],
           [kind |-> "conn", status |-> 0, body |-> None] }

\* An effect <<"http_get", url, params, status>> is one session.get with the
\* status of the response it received.
\* Result of a call that may raise: exc is "none" or the exception class the
\* handler's except clauses distinguish; ev lists the effects in order.
Returned(data, ev) == [exc |-> "none", msg |-> <<>>, data |-> data, ev |-> ev]
Raised(exc, msg, ev) == [exc |-> exc, msg |-> msg, data |-> None, ev |-> ev]

\* ------------------------------------------------------------------------
\*  StringDBBridge
\* ------------------------------------------------------------------------
\* p[k] = v on a dict
Put(p, k, v) == [x \in DOMAIN p \cup {k} |-> IF x = k THEN v ELSE p[x]]

\* Variant: params["caller_identity"] = cfg.caller_identity
SetAlways(p, k, v) == Put(p, k, v)

\* params.setdefault("caller_identity", cfg.caller_identity)
SetDefault(p, k, v) == IF k \in DOMAIN p THEN p ELSE Put(p, k, v)

\* Variant: a request that came back with an error status is sent once more
bridge_get_retry(endpoint, params, o) ==
    LET url == <<version_url, "/", "json", "/", endpoint>>
        p   == SetDefault(params, "caller_identity", JStr(caller_identity))
        get == <<"http_get", url, p, o.status>>
    IN  CASE o.kind = "conn" ->
               Raised("RequestException", <<"Connection", "refused">>, <<get>>)
          [] o.kind = "status" ->
               Raised("RequestException",
                      <<ToString(o.status), "Client", "Error", "for", "url:">> \o url,
                      <<get, get>>)
          [] o.kind = "badjson" ->
               Raised("ValueError", <<"Expecting", "value">>, <<get, <<"sleep", delay>>>>)
          [] o.kind = "ok" ->
               Returned(o.body, <<get, <<"sleep", delay>>>>)

bridge_get(endpoint, params, o) ==
    LET url == <<version_url, "/", "json", "/", endpoint>>
        p   == SetDefault(params, "caller_identity", JStr(caller_identity))
        get == <<"http_get", url, p, o.status>>
    IN  CASE o.kind = "conn" ->
               Raised("RequestException", <<"Connection", "refused">>, <<get>>)
          [] o.kind = "status" ->
               Raised("RequestException",
                      <<ToString(o.status), "Client", "Error", "for", "url:">> \o url,
                      <<get>>)
          [] o.kind = "badjson" ->
               Raised("ValueError", <<"Expecting", "value">>, <<get, <<"sleep", delay>>>>)
          [] o.kind = "ok" ->
               Returned(o.body, <<get, <<"sleep", delay>>>>)

\* Variant: a single object is wrapped into a one-element list
ListOrWrapped(r) ==
    IF r.exc # "none" THEN r
    ELSE [r EXCEPT !.data = IF IsList(r.data) THEN r.data
                            ELSE IF IsDict(r.data) THEN JList(<<r.data>>)
                            ELSE JList(<<>>)]

\* `return data if isinstance(data, list) else []`
ListOrEmpty(r) ==
    IF r.exc # "none" THEN r
    ELSE [r EXCEPT !.data = IF IsList(r.data) THEN r.data ELSE JList(<<>>)]

EmptyIdentifiers == Raised("ValueError", <<"identifiers", "list", "cannot", "be", "empty">>, <<>>)

\* p[k] = v only when v is not None
WithOpt(p, k, v) == IF v # None THEN Put(p, k, v) ELSE p
\* p[k] = v only when c is truthy
WithIf(p, c, k, v) == IF Truthy(c) THEN Put(p, k, v) ELSE p

map_identifiers(identifiers, species, echo_query, o) ==
    IF ~Truthy(identifiers) THEN EmptyIdentifiers
    ELSE LET p0 == [identifiers |-> Join(identifiers),
                         echo_query |-> JInt(IF Truthy(echo_query) THEN 1 ELSE 0)]
             p  == WithOpt(p0, "species", species)
         IN  ListOrEmpty(bridge_get("get_string_ids", p, o))

get_network_interactions(identifiers, species, required_score, add_nodes, network_type, o) ==
    IF ~Truthy(identifiers) THEN EmptyIdentifiers
    ELSE LET p0 == [identifiers |-> Join(identifiers),
                         network_type |-> network_type,
                         show_query_node_labels |-> JInt(0)]
             p1 == WithOpt(p0, "species", species)
             p2 == WithOpt(p1, "required_score", required_score)
             p  == WithIf(p2, add_nodes, "add_nodes", add_nodes)
         IN  ListOrEmpty(bridge_get("network", p, o))

get_functional_enrichment(identifiers, species, background_identifiers, o) ==
    IF ~Truthy(identifiers) THEN EmptyIdentifiers
    ELSE LET p0 == [identifiers |-> Join(identifiers)]
             p1 == WithOpt(p0, "species", species)
             p  == IF Truthy(background_identifiers)
                   THEN Put(p1, "background_string_identifiers", Join(background_identifiers))
                   ELSE p1
         IN  ListOrEmpty(bridge_get("enrichment", p, o))

get_version_info(o) ==
    LET r == bridge_get("version", <<>>, o)
    IN  IF r.exc # "none" THEN r
        ELSE [r EXCEPT !.data = IF IsList(r.data) THEN r.data
                                ELSE IF IsDict(r.data) THEN JList(<<r.data>>)
                                ELSE JList(<<>>)]

\* new endpoints ---------------------------------------------------------
get_interaction_partners(identifiers, species, limit, required_score, network_type, o) ==
    IF ~Truthy(identifiers) THEN EmptyIdentifiers
    ELSE LET p0 == [identifiers |-> Join(identifiers), network_type |-> network_type]
             p1 == WithOpt(p0, "species", species)
             p2 == WithOpt(p1, "limit", limit)
             p  == WithOpt(p2, "required_score", required_score)
         IN  ListOrEmpty(bridge_get("interaction_partners", p, o))

get_homology(identifiers, species, o) ==
    IF ~Truthy(identifiers) THEN EmptyIdentifiers
    ELSE LET p0 == [identifiers |-> Join(identifiers)]
             p  == WithOpt(p0, "species", species)
         IN  ListOrEmpty(bridge_get("homology", p, o))

\* map(str, species_b)
MapStr(l) == JList([i \in 1..Len(l[2]) |-> JStr(PyStr(l[2][i]))])

get_homology_best(identifiers, species, species_b, o) ==
    IF ~Truthy(identifiers) THEN EmptyIdentifiers
    ELSE LET p0 == [identifiers |-> Join(identifiers)]
             p1 == WithOpt(p0, "species", species)
             p  == IF Truthy(species_b)
                   THEN Put(p1, "species_b", Join(MapStr(species_b)))
                   ELSE p1
         IN  ListOrEmpty(bridge_get("homology_best", p, o))

get_functional_annotation(identifiers, species, allow_pubmed, only_pubmed, o) ==
    IF ~Truthy(identifiers) THEN EmptyIdentifiers
    ELSE LET p0 == [identifiers |-> Join(identifiers)]
             p1 == WithOpt(p0, "species", species)
             p2 == WithIf(p1, allow_pubmed, "allow_pubmed", JInt(1))
             p  == WithIf(p2, only_pubmed, "only_pubmed", JInt(1))
         IN  ListOrEmpty(bridge_get("functional_annotation", p, o))

\* Variant: the identifiers are joined and sent without looking at them
get_ppi_enrichment_unchecked(identifiers, species, required_score, o) ==
    LET p0 == [identifiers |-> Join(identifiers)]
        p1 == WithOpt(p0, "species", species)
        p  == WithOpt(p1, "required_score", required_score)
        r  == bridge_get("ppi_enrichment", p, o)
    IN  IF r.exc # "none" THEN r
        ELSE [r EXCEPT !.data = IF IsList(r.data) /\ Truthy(r.data)
                                THEN r.data[2][1] ELSE r.data]

get_ppi_enrichment(identifiers, species, required_score, o) ==
    IF ~Truthy(identifiers) THEN EmptyIdentifiers
    ELSE LET p0 == [identifiers |-> Join(identifiers)]
             p1 == WithOpt(p0, "species", species)
             p  == WithOpt(p1, "required_score", required_score)
             r  == bridge_get("ppi_enrichment", p, o)
         IN  IF r.exc # "none" THEN r
             ELSE [r EXCEPT !.data = IF IsList(r.data) /\ Truthy(r.data)
                                     THEN r.data[2][1] ELSE r.data]

\* f"{k}={v}" for every parameter in insertion order, joined with "&"
RECURSIVE QueryParts(_, _)
QueryParts(pairs, i) ==
    IF i > Len(pairs) THEN <<>>
    ELSE (IF i > 1 THEN <<"&">> ELSE <<>>) \o
         <<pairs[i][1], "=">> \o
         (IF pairs[i][2][1] = "text" THEN pairs[i][2][2] ELSE <<PyStr(pairs[i][2])>>) \o
         QueryParts(pairs, i + 1)

\* params[k] = v appended in insertion order when the condition holds
AddIf(pairs, c, k, v) == IF c THEN Append(pairs, <<k, v>>) ELSE pairs

build_network_image_url(identifiers, species, add_color_nodes, add_white_nodes, required_score, network_type, network_flavor, highres, svg) ==
    IF ~Truthy(identifiers) THEN EmptyIdentifiers
    ELSE LET p0 == << <<"identifiers", Join(identifiers)>>,
                      <<"network_type", network_type>>,
                      <<"network_flavor", network_flavor>>,
                      <<"caller_identity", JStr(caller_identity)>> >>
             p1 == AddIf(p0, species # None, "species", species)
             p2 == AddIf(p1, add_color_nodes # None, "add_color_nodes", add_color_nodes)
             p3 == AddIf(p2, add_white_nodes # None, "add_white_nodes", add_white_nodes)
             p4 == AddIf(p3, required_score # None, "required_score", required_score)
             p5 == AddIf(p4, Truthy(highres), "highres", JInt(1))
             p6 == AddIf(p5, Truthy(svg), "format", JStr("svg"))
         IN  Returned(JText(<<version_url, "/", "image", "/", "network", "?">> \o QueryParts(p6, 1)),
                      <<>>)

build_enrichment_figure_url(identifiers, species, category, group_by_similarity, color_palette, number_of_term_shown, x_axis, highres, svg) ==
    IF ~Truthy(identifiers) THEN EmptyIdentifiers
    ELSE LET p0 == << <<"identifiers", Join(identifiers)>>,
                      <<"species", species>>,
                      <<"category", category>>,
                      <<"caller_identity", JStr(caller_identity)>> >>
             p1 == AddIf(p0, group_by_similarity # None, "group_by_similarity", group_by_similarity)
             p2 == AddIf(p1, color_palette # None, "color_palette", color_palette)
             p3 == AddIf(p2, number_of_term_shown # None, "number_of_term_shown", number_of_term_shown)
             p4 == AddIf(p3, x_axis # None, "x_axis", x_axis)
             p5 == AddIf(p4, Truthy(highres), "highres", JInt(1))
             p6 == AddIf(p5, Truthy(svg), "format", JStr("svg"))
         IN  Returned(JText(<<version_url, "/", "image", "/", "enrichment", "?">> \o QueryParts(p6, 1)),
                      <<>>)

\* The path of a built URL is what precedes "?"; its last token decides the suffix
RECURSIVE UrlPath(_, _)
UrlPath(toks, i) ==
    IF i > Len(toks) \/ toks[i] = "?" THEN <<>> ELSE <<toks[i]>> \o UrlPath(toks, i + 1)
Suffix(url) ==
    LET path == UrlPath(url[2], 1)
    IN  IF Len(path) > 0 /\ path[Len(path)] = ".svg" THEN ".svg" ELSE ".png"

\* The temporary file is created first, then the URL is fetched; no delay.
download_image(url, o) ==
    LET tmp == <<"tmpfile", Suffix(url)>>
        get == <<"http_get", url[2], <<>>, o.status>>
    IN  CASE o.kind = "conn" ->
               Raised("RequestException", <<"Connection", "refused">>, <<tmp, get>>)
          [] o.kind = "status" ->
               Raised("RequestException",
                      <<ToString(o.status), "Client", "Error", "for", "url:">> \o url[2],
                      <<tmp, get>>)
          [] o.kind = "ok" ->
               Returned(JText(<<"/tmp/tmpfile", Suffix(url)>>), <<tmp, get, <<"write">>>>)

\* ------------------------------------------------------------------------
\*  StringMCPServer: payload helpers and _send
\* ------------------------------------------------------------------------
\* Variant: str(data) for every kind of data, never json.dumps
success_payload_str(data) ==
    JObj([isError |-> JBool(FALSE),
          content |-> JList(<<JObj([type |-> JStr("text"), text |-> JText(<<PyStr(data)>>)])>>)])

\* Variant: the message goes out without the "Error: " prefix
error_payload_no_prefix(msg) ==
    JObj([isError |-> JBool(TRUE),
          content |-> JList(<<JObj([type |-> JStr("text"), text |-> JText(msg)])>>)])

text_block(text) == JObj([type |-> JStr("text"), text |-> text])

success_payload(data) ==
    LET text == IF IsList(data) \/ IsDict(data) THEN JText(JsonDumps(data))
                ELSE IF data[1] = "text" THEN data ELSE JText(<<PyStr(data)>>)
    IN  JObj([isError |-> JBool(FALSE), content |-> JList(<<text_block(text)>>)])

error_payload(msg) ==
    JObj([isError |-> JBool(TRUE), content |-> JList(<<text_block(JText(<<"Error:">> \o msg))>>)])

\* Variant: `result` is set unconditionally, `error` added on top of it
send_result_and_error(rid, out, result, error) ==
    IF rid = None THEN out
    ELSE LET base == ("jsonrpc" :> JStr("2.0")) @@ ("id" :> rid) @@
                     ("result" :> (IF Truthy(result) THEN result ELSE EmptyDict))
             payload == IF error # None THEN ("error" :> error) @@ base ELSE base
         IN  Append(out, JObj(payload))

\* Variant: the new line is put in front of the earlier ones
send_in_front(rid, out, result, error) ==
    IF rid = None THEN out
    ELSE LET base == ("jsonrpc" :> JStr("2.0")) @@ ("id" :> rid)
             payload == IF error # None THEN ("error" :> error) @@ base
                        ELSE ("result" :> (IF Truthy(result) THEN result ELSE EmptyDict)) @@ base
         IN  <<JObj(payload)>> \o out

\* _send(result=..., error=...): the stdout after the call, given request_id
send(rid, out, result, error) ==
    IF rid = None THEN out
    ELSE LET base == ("jsonrpc" :> JStr("2.0")) @@ ("id" :> rid)
             payload == IF error # None THEN ("error" :> error) @@ base
                        ELSE ("result" :> (IF Truthy(result) THEN result ELSE EmptyDict)) @@ base
         IN  Append(out, JObj(payload))

\* What a handler leaves behind: the stdout, whether an exception escaped to
\* run (and so ended the process), and the effects in order.
Handled(out, ev) == [out |-> out, crashed |-> FALSE, ev |-> ev]
Escaped(out, ev) == [out |-> out, crashed |-> TRUE, ev |-> ev]

\* Variant: the server's own protocol version is returned, not the client's
handle_initialize_fixed_version(rid, out, params) ==
    IF ~IsDict(params) THEN Escaped(out, << <<"stderr", "AttributeError">> >>)
    ELSE LET result == JObj([protocolVersion |-> JStr("2025-03-26"),
                             capabilities |-> JObj([tools |-> JObj([executable |-> JBool(TRUE)])]),
                             serverInfo |-> JObj([name |-> JStr("string-mcp"),
                                                  version |-> JStr("0.2.0")])])
         IN  Handled(send(rid, out, result, None), <<>>)

handle_initialize(rid, out, params) ==
    IF ~IsDict(params) THEN Escaped(out, << <<"stderr", "AttributeError">> >>)
    ELSE LET client_version == GetD(params, "protocolVersion", JStr("2025-03-26"))
             result == JObj([protocolVersion |-> client_version,
                             capabilities |-> JObj([tools |-> JObj([executable |-> JBool(TRUE)])]),
                             serverInfo |-> JObj([name |-> JStr("string-mcp"),
                                                  version |-> JStr("0.2.0")])])
         IN  Handled(send(rid, out, result, None), <<>>)

\* Tool descriptors -------------------------------------------------------
\* Variant: the legacy key keeps only the properties of the schema
td_legacy_properties(name, desc, schema) ==
    JObj([name |-> JStr(name), description |-> JStr(desc),
          parameters |-> schema, inputSchema |-> Get(schema, "properties")])

td(name, desc, schema) ==
    JObj([name |-> JStr(name), description |-> JStr(desc),
          parameters |-> schema, inputSchema |-> schema])

Ty(t) == JObj("type" :> JStr(t))
Enum(vals) == JObj([type |-> JStr("string"), enum |-> JList(vals)])
ArrayOfStrings == JObj([type |-> JStr("array"), items |-> Ty("string")])
common_ids_prop ==
    "identifiers" :> JObj([type |-> JStr("array"), items |-> Ty("string"),
                           description |-> JStr("Protein list")])
Schema(props, required) ==
    JObj([type |-> JStr("object"), properties |-> JObj(props), required |-> JList(required)])
NetworkTypes == Enum(<<JStr("functional"), JStr("physical")>>)

\* Variant: a seventh descriptor, for the homology endpoint of the bridge
tools_with_homology ==
    << td("map_identifiers", "Map protein identifiers to STRING IDs.",
          Schema(common_ids_prop @@ ("species" :> Ty("integer")) @@ ("echo_query" :> Ty("boolean")),
                 <<JStr("identifiers")>>)),
       td("get_network_interactions", "Retrieve STRING interaction edges.",
          Schema(common_ids_prop @@ ("species" :> Ty("integer")) @@
                 ("required_score" :> Ty("integer")) @@ ("add_nodes" :> Ty("integer")) @@
                 ("network_type" :> NetworkTypes),
                 <<JStr("identifiers")>>)),
       td("get_functional_enrichment", "Perform GO / pathway enrichment on a protein set.",
          Schema(common_ids_prop @@ ("species" :> Ty("integer")) @@
                 ("background_identifiers" :> ArrayOfStrings),
                 <<JStr("identifiers")>>)),
       td("get_version_info", "Return the current STRING database version.",
          JObj([type |-> JStr("object"), properties |-> EmptyDict])),
       td("get_network_image", "Return URL of STRING network image",
          Schema(common_ids_prop @@ ("species" :> Ty("integer")) @@ ("highres" :> Ty("boolean")) @@
                 ("svg" :> Ty("boolean")) @@ ("network_type" :> NetworkTypes) @@
                 ("network_flavor" :> Enum(<<JStr("evidence"), JStr("confidence"), JStr("actions")>>)) @@
                 ("required_score" :> Ty("integer")) @@ ("add_color_nodes" :> Ty("integer")) @@
                 ("add_white_nodes" :> Ty("integer")) @@ ("download_image" :> Ty("boolean")),
                 <<JStr("identifiers")>>)),
       td("get_enrichment_figure", "Return URL of enrichment scatter figure",
          Schema(common_ids_prop @@ ("species" :> Ty("integer")) @@ ("category" :> Ty("string")) @@
                 ("group_by_similarity" :> Ty("number")) @@ ("color_palette" :> Ty("string")) @@
                 ("number_of_term_shown" :> Ty("integer")) @@ ("x_axis" :> Ty("string")) @@
                 ("highres" :> Ty("boolean")) @@ ("svg" :> Ty("boolean")) @@
                 ("download_image" :> Ty("boolean")),
                 <<JStr("identifiers"), JStr("species")>>)),
       td("get_homology", "Retrieve homology scores between proteins.",
          Schema(common_ids_prop @@ ("species" :> Ty("integer")),
                 <<JStr("identifiers")>>)) >>

tools ==
    << td("map_identifiers", "Map protein identifiers to STRING IDs.",
          Schema(common_ids_prop @@ ("species" :> Ty("integer")) @@ ("echo_query" :> Ty("boolean")),
                 <<JStr("identifiers")>>)),
       td("get_network_interactions", "Retrieve STRING interaction edges.",
          Schema(common_ids_prop @@ ("species" :> Ty("integer")) @@
                 ("required_score" :> Ty("integer")) @@ ("add_nodes" :> Ty("integer")) @@
                 ("network_type" :> NetworkTypes),
                 <<JStr("identifiers")>>)),
       td("get_functional_enrichment", "Perform GO / pathway enrichment on a protein set.",
          Schema(common_ids_prop @@ ("species" :> Ty("integer")) @@
                 ("background_identifiers" :> ArrayOfStrings),
                 <<JStr("identifiers")>>)),
       td("get_version_info", "Return the current STRING database version.",
          JObj([type |-> JStr("object"), properties |-> EmptyDict])),
       td("get_network_image", "Return URL of STRING network image",
          Schema(common_ids_prop @@ ("species" :> Ty("integer")) @@ ("highres" :> Ty("boolean")) @@
                 ("svg" :> Ty("boolean")) @@ ("network_type" :> NetworkTypes) @@
                 ("network_flavor" :> Enum(<<JStr("evidence"), JStr("confidence"), JStr("actions")>>)) @@
                 ("required_score" :> Ty("integer")) @@ ("add_color_nodes" :> Ty("integer")) @@
                 ("add_white_nodes" :> Ty("integer")) @@ ("download_image" :> Ty("boolean")),
                 <<JStr("identifiers")>>)),
       td("get_enrichment_figure", "Return URL of enrichment scatter figure",
          Schema(common_ids_prop @@ ("species" :> Ty("integer")) @@ ("category" :> Ty("string")) @@
                 ("group_by_similarity" :> Ty("number")) @@ ("color_palette" :> Ty("string")) @@
                 ("number_of_term_shown" :> Ty("integer")) @@ ("x_axis" :> Ty("string")) @@
                 ("highres" :> Ty("boolean")) @@ ("svg" :> Ty("boolean")) @@
                 ("download_image" :> Ty("boolean")),
                 <<JStr("identifiers"), JStr("species")>>)) >>

handle_list_tools(rid, out, params) ==
    Handled(send(rid, out, JObj([tools |-> JList(tools)]), None), <<>>)

handle_list_resources(rid, out, params) ==
    Handled(send(rid, out, JObj([resources |-> JList(<<>>)]), None), <<>>)

handle_list_prompts(rid, out, params) ==
    Handled(send(rid, out, JObj([prompts |-> JList(<<>>)]), None), <<>>)

\* tools/call -------------------------------------------------------------
PyType(v) ==
    CASE v[1] = "null" -> "'NoneType'"
      [] v[1] = "list" -> "'list'"
      [] v[1] = "str"  -> "'str'"
      [] v[1] = "int"  -> "'int'"
      [] v[1] = "bool" -> "'bool'"
      [] OTHER         -> "'dict'"

\* arguments.get(...) on something that is not a dict
NoGet(v) == Raised("Exception", <<PyType(v), "object", "has", "no", "attribute", "'get'">>, <<>>)

IdentifiersRequired ==
    Raised("ValueError",
           <<"identifiers", "parameter", "is", "required", "and", "cannot", "be", "empty">>, <<>>)
SpeciesRequired ==
    Raised("ValueError",
           <<"species", "parameter", "is", "required", "for", "get_enrichment_figure">>, <<>>)

\* self._send(result=self._success_payload(data)) after a bridge call
\* (the effect <<"data", d>> records the value handed to _success_payload)
ThenSuccess(r) ==
    IF r.exc # "none" THEN r
    ELSE Returned(success_payload(r.data), r.ev \o << <<"data", r.data>> >>)

\* `if arguments.get("download_image"): ... else: ...` after a URL was built
ImageResult(u, arguments, o) ==
    IF u.exc # "none" THEN u
    ELSE IF Truthy(Get(arguments, "download_image"))
         THEN LET d == download_image(u.data, o)
              IN  IF d.exc # "none" THEN d
                  ELSE ThenSuccess(Returned(JObj("image_path" :> d.data), d.ev))
         ELSE ThenSuccess(Returned(JObj("image_url" :> u.data), <<>>))

\* "Supported tools" of the module docstring
SupportedTools ==
    {"map_identifiers", "get_network_interactions", "get_functional_enrichment",
     "get_version_info", "get_interaction_partners", "get_homology", "get_homology_best",
     "get_functional_annotation", "get_ppi_enrichment"}

\* The names the if/elif chain of _handle_call_tool dispatches
DispatchedTools ==
    {"map_identifiers", "get_network_interactions", "get_functional_enrichment",
     "get_version_info", "get_network_image", "get_enrichment_figure"}

\* Variant: the unknown-tool message goes out through _success_payload
unknown_tool_as_success(name) ==
    Returned(success_payload(JText(<<"Unknown", "tool:", PyStr(name)>>)), <<>>)

\* The final else of the chain
unknown_tool(name) == Returned(error_payload(<<"Unknown", "tool:", PyStr(name)>>), <<>>)

\* The body of the try block: the payload to send, or the exception raised
call_tool_body(name, arguments, o) ==
    LET ids == GetD(arguments, "identifiers", JList(<<>>))
    IN  CASE name = JStr("map_identifiers") ->
               IF ~IsDict(arguments) THEN NoGet(arguments)
               ELSE IF ~Truthy(ids) THEN IdentifiersRequired
               ELSE ThenSuccess(map_identifiers(ids, Get(arguments, "species"),
                                                GetD(arguments, "echo_query", JBool(FALSE)), o))
          [] name = JStr("get_network_interactions") ->
               IF ~IsDict(arguments) THEN NoGet(arguments)
               ELSE IF ~Truthy(ids) THEN IdentifiersRequired
               ELSE ThenSuccess(get_network_interactions(
                                    ids, Get(arguments, "species"),
                                    Get(arguments, "required_score"),
                                    GetD(arguments, "add_nodes", JInt(0)),
                                    GetD(arguments, "network_type", JStr("functional")), o))
          [] name = JStr("get_functional_enrichment") ->
               IF ~IsDict(arguments) THEN NoGet(arguments)
               ELSE IF ~Truthy(ids) THEN IdentifiersRequired
               ELSE ThenSuccess(get_functional_enrichment(
                                    ids, Get(arguments, "species"),
                                    Get(arguments, "background_identifiers"), o))
          [] name = JStr("get_version_info") ->
               ThenSuccess(get_version_info(o))
          [] name = JStr("get_network_image") ->
               IF ~IsDict(arguments) THEN NoGet(arguments)
               ELSE IF ~Truthy(ids) THEN IdentifiersRequired
               ELSE ImageResult(build_network_image_url(
                                    ids, Get(arguments, "species"),
                                    Get(arguments, "add_color_nodes"),
                                    Get(arguments, "add_white_nodes"),
                                    Get(arguments, "required_score"),
                                    GetD(arguments, "network_type", JStr("functional")),
                                    GetD(arguments, "network_flavor", JStr("evidence")),
                                    GetD(arguments, "highres", JBool(TRUE)),
                                    GetD(arguments, "svg", JBool(TRUE))),
                                arguments, o)
          [] name = JStr("get_enrichment_figure") ->
               IF ~IsDict(arguments) THEN NoGet(arguments)
               ELSE IF ~Truthy(ids) THEN IdentifiersRequired
               ELSE IF Get(arguments, "species") = None THEN SpeciesRequired
               ELSE ImageResult(build_enrichment_figure_url(
                                    ids, Get(arguments, "species"),
                                    GetD(arguments, "category", JStr("Process")),
                                    Get(arguments, "group_by_similarity"),
                                    Get(arguments, "color_palette"),
                                    Get(arguments, "number_of_term_shown"),
                                    Get(arguments, "x_axis"),
                                    GetD(arguments, "highres", JBool(FALSE)),
                                    GetD(arguments, "svg", JBool(FALSE))),
                                arguments, o)
          [] OTHER -> unknown_tool(name)

\* Variant: the text of an HTTP failure is returned as if it were data
call_tool_payload_http_as_data(r) ==
    CASE r.exc = "none"             -> r.data
      [] r.exc = "RequestException" -> success_payload(JText(<<"HTTP", "request", "failed:">> \o r.msg))
      [] r.exc = "ValueError"       -> error_payload(r.msg)
      [] OTHER                      -> error_payload(<<"Internal", "error:">> \o r.msg)

\* The except clauses: every exception of the try block becomes a payload
call_tool_payload(r) ==
    CASE r.exc = "none"             -> r.data
      [] r.exc = "RequestException" -> error_payload(<<"HTTP", "request", "failed:">> \o r.msg)
      [] r.exc = "ValueError"       -> error_payload(r.msg)
      [] OTHER                      -> error_payload(<<"Internal", "error:">> \o r.msg)

handle_call_tool(rid, out, params, o) ==
    IF ~IsDict(params) THEN Escaped(out, << <<"stderr", "AttributeError">> >>)
    ELSE LET name == Get(params, "name")
             arguments == GetD(params, "arguments", EmptyDict)
             r == call_tool_body(name, arguments, o)
             trace == IF r.exc \in {"none", "RequestException", "ValueError"} THEN <<>>
                      ELSE << <<"stderr", "traceback">> >>
         IN  Handled(send(rid, out, call_tool_payload(r), None), r.ev \o trace)

\* ------------------------------------------------------------------------
\*  Input lines
\* ------------------------------------------------------------------------
Absent == <<"absent">>
Opt(k, v) == IF v = Absent THEN <<>> ELSE k :> v

\* `id` absent, null, and two ids that differ in type only (0 is falsy)
IdOpts == {Absent, None, JInt(0), JStr("0")}

P53 == JStr("TP53")
ArgOpts ==
    {Absent, None,
     JObj("identifiers" :> JList(<<>>)),
     JObj("identifiers" :> JList(<<P53>>)),
     JObj(("identifiers" :> JList(<<P53>>)) @@ ("species" :> JInt(9606))),
     JObj(("identifiers" :> JList(<<P53>>)) @@ ("species" :> JInt(9606)) @@
          ("download_image" :> JBool(TRUE)))}

\* `name` absent, every dispatched tool, one documented tool without a branch
\* in _handle_call_tool, and a name that is no tool at all
NameOpts ==
    {Absent} \cup {JStr(t) : t \in DispatchedTools \cup {"get_homology", "no_such_tool"}}

CallParams ==
    {Absent, None} \cup
    {JObj(Opt("name", n) @@ Opt("arguments", a)) : n \in NameOpts, a \in ArgOpts}

InitializeParams ==
    {Absent, None, JList(<<>>),
     JObj("protocolVersion" :> JStr("2024-11-05")),
     JObj("protocolVersion" :> None)}

\* Methods whose handlers never look at params
OtherMethods ==
    {Absent, JStr("tools/list"), JStr("resources/list"), JStr("prompts/list"),
     JStr("notifications/initialized"), JStr("frobnicate")}

MethodParams ==
    ({JStr("initialize")} \X InitializeParams) \cup
    (OtherMethods \X {Absent, None}) \cup
    ({JStr("tools/call")} \X CallParams)

\* One line of every method, for the second id
SampleMethodParams ==
    {<<Absent, Absent>>,
     <<JStr("initialize"), Absent>>,
     <<JStr("tools/list"), Absent>>,
     <<JStr("frobnicate"), Absent>>,
     <<JStr("tools/call"), None>>,
     <<JStr("tools/call"),
       JObj(("name" :> JStr("map_identifiers")) @@
            ("arguments" :> JObj("identifiers" :> JList(<<P53>>))))>>}

Message(i, mp) ==
    JObj(("jsonrpc" :> JStr("2.0")) @@ Opt("id", i) @@ Opt("method", mp[1]) @@
         Opt("params", mp[2]))

\* Lines that json.loads turns into a dict: every method and params with the
\* id absent, null and 0, and a sample of them with the id "0"
Messages ==
    {Message(i, mp) : i \in IdOpts \ {JStr("0")}, mp \in MethodParams} \cup
    {Message(JStr("0"), mp) : mp \in SampleMethodParams \cap MethodParams}

\* Lines that are valid JSON but not an object
NonObjects == {JList(<<JInt(1)>>), JInt(42)}

\* ------------------------------------------------------------------------
\*  StringMCPServer.run: state
\* ------------------------------------------------------------------------
VARIABLES
    request_id,   \* self.request_id
    stdout,       \* the JSON-RPC lines printed so far, oldest first
    pc,           \* "idle": at `for raw in sys.stdin`; "handled": the loop body
                  \* has run for cur; "crashed": an exception left run;
                  \* "done": stdin is exhausted and run has returned
    nread,        \* lines read from stdin
    cur,          \* the line being handled: [kind, val]
    ev,           \* effects of handling cur, in order (HTTP, sleep, stderr, ...)
    nbefore,      \* Len(stdout) when cur was read
    nreq,         \* lines read so far that were messages with a non-null id
    ret           \* the last direct call of a StringDBBridge method:
                  \* [op, identifiers, params, o, r]

vars == <<request_id, stdout, pc, nread, cur, ev, nbefore, nreq, ret>>

NoLine == [kind |-> "none", val |-> None]
NoOutcome == [kind |-> "none", status |-> 0, body |-> None]
NoCall == [op |-> "none", identifiers |-> None, params |-> <<>>, o |-> NoOutcome,
           r |-> Returned(None, <<>>)]

Init ==
    /\ request_id = None
    /\ stdout = <<>>
    /\ pc = "idle"
    /\ nread = 0
    /\ cur = NoLine
    /\ ev = <<>>
    /\ nbefore = 0
    /\ nreq = 0
    /\ ret = NoCall

\* Variant: req.get("id", 0), a default id instead of None
request_id_default_zero(req) == GetD(req, "id", JInt(0))

\* self.request_id = req.get("id")
request_id_of(req) == Get(req, "id")
method_of(req) == Get(req, "method")
\* params = req.get("params", {})
params_of(req) == GetD(req, "params", EmptyDict)

CanRead == pc = "idle" /\ nread < MaxLines

\* Bookkeeping common to every iteration of the loop
Read(kind, val) ==
    /\ nread' = nread + 1
    /\ cur' = [kind |-> kind, val |-> val]
    /\ nbefore' = Len(stdout)
    /\ nreq' = IF kind = "message" /\ request_id_of(val) # None THEN nreq + 1 ELSE nreq
    /\ ret' = ret

\* A handler has run for a message that json.loads turned into a dict
Finish(req, h) ==
    /\ Read("message", req)
    /\ request_id' = request_id_of(req)
    /\ stdout' = h.out
    /\ ev' = h.ev
    /\ pc' = IF h.crashed THEN "crashed" ELSE "handled"

\* `if not line: continue`
ReadBlank ==
    /\ CanRead
    /\ Read("blank", None)
    /\ ev' = <<>>
    /\ pc' = "handled"
    /\ UNCHANGED <<request_id, stdout>>

\* Variant: a parse error is answered with code -32700 under the id that
\* self.request_id still holds
ReadBadJSONAnswered ==
    /\ CanRead
    /\ Read("badjson", None)
    /\ stdout' = send(request_id, stdout, None,
                      JObj([code |-> JInt(-32700), message |-> JStr("Parse error")]))
    /\ request_id' = None
    /\ ev' = << <<"stderr", "Bad JSON from host">> >>
    /\ pc' = "handled"

\* json.loads raises JSONDecodeError
ReadBadJSON ==
    /\ CanRead
    /\ Read("badjson", None)
    /\ request_id' = None
    /\ ev' = << <<"stderr", "Bad JSON from host">> >>
    /\ pc' = "handled"
    /\ UNCHANGED stdout

\* json.loads returns a list, number, ...: req.get raises AttributeError
ReadNonObject ==
    /\ CanRead
    /\ \E v \in NonObjects :
        /\ Read("json", v)
        /\ pc' = "crashed"
        /\ ev' = << <<"stderr", "AttributeError">> >>
        /\ UNCHANGED <<request_id, stdout>>

\* Variant: a tools/call without an id is dispatched like a request, and
\* only _send keeps silent
NotificationDispatched ==
    /\ CanRead
    /\ \E req \in Messages, o \in HttpOutcomes :
        /\ request_id_of(req) = None
        /\ Finish(req, IF method_of(req) = JStr("tools/call")
                       THEN handle_call_tool(None, stdout, params_of(req), o)
                       ELSE Handled(stdout,
                              IF method_of(req) = JStr("notifications/initialized")
                              THEN << <<"stderr", "Client says: initialized">> >> ELSE <<>>))

\* Variant: a message without an id is acknowledged, under the id that
\* self.request_id held before the line was read
NotificationAcknowledged ==
    /\ CanRead
    /\ \E req \in Messages :
        /\ request_id_of(req) = None
        /\ Finish(req, Handled(send(request_id, stdout, EmptyDict, None), <<>>))

\* `if self.request_id is None: ... continue`
Notification ==
    /\ CanRead
    /\ \E req \in Messages :
        /\ request_id_of(req) = None
        /\ Finish(req, Handled(stdout,
                   IF method_of(req) = JStr("notifications/initialized")
                   THEN << <<"stderr", "Client says: initialized">> >> ELSE <<>>))

Initialize ==
    /\ CanRead
    /\ \E req \in Messages :
        /\ request_id_of(req) # None
        /\ method_of(req) = JStr("initialize")
        /\ Finish(req, handle_initialize(request_id_of(req), stdout, params_of(req)))

ListTools ==
    /\ CanRead
    /\ \E req \in Messages :
        /\ request_id_of(req) # None
        /\ method_of(req) = JStr("tools/list")
        /\ Finish(req, handle_list_tools(request_id_of(req), stdout, params_of(req)))

CallTool ==
    /\ CanRead
    /\ \E req \in Messages, o \in HttpOutcomes :
        /\ request_id_of(req) # None
        /\ method_of(req) = JStr("tools/call")
        /\ Finish(req, handle_call_tool(request_id_of(req), stdout, params_of(req), o))

ListResources ==
    /\ CanRead
    /\ \E req \in Messages :
        /\ request_id_of(req) # None
        /\ method_of(req) = JStr("resources/list")
        /\ Finish(req, handle_list_resources(request_id_of(req), stdout, params_of(req)))

ListPrompts ==
    /\ CanRead
    /\ \E req \in Messages :
        /\ request_id_of(req) # None
        /\ method_of(req) = JStr("prompts/list")
        /\ Finish(req, handle_list_prompts(request_id_of(req), stdout, params_of(req)))

KnownMethods ==
    {JStr("initialize"), JStr("tools/list"), JStr("tools/call"),
     JStr("resources/list"), JStr("prompts/list")}

\* Variant: the code of "Invalid Request" instead of "Method not found"
method_not_found_invalid_request(rid, out, method) ==
    Handled(send(rid, out, None,
                 JObj([code |-> JInt(-32600),
                       message |-> JText(<<"Method", "not", "found:", PyStr(method)>>)])),
            <<>>)

method_not_found(rid, out, method) ==
    Handled(send(rid, out, None,
                 JObj([code |-> JInt(-32601),
                       message |-> JText(<<"Method", "not", "found:", PyStr(method)>>)])),
            <<>>)

MethodNotFound ==
    /\ CanRead
    /\ \E req \in Messages :
        /\ request_id_of(req) # None
        /\ method_of(req) \notin KnownMethods
        /\ Finish(req, method_not_found(request_id_of(req), stdout, method_of(req)))

\* The loop body is over: back to `for raw in sys.stdin`
NextLine ==
    /\ pc = "handled"
    /\ pc' = "idle"
    /\ cur' = NoLine
    /\ ev' = <<>>
    /\ nbefore' = Len(stdout)
    /\ UNCHANGED <<request_id, stdout, nread, nreq, ret>>

\* stdin is exhausted: the for loop ends and run returns
EndOfInput ==
    /\ pc = "idle"
    /\ pc' = "done"
    /\ UNCHANGED <<request_id, stdout, nread, cur, ev, nbefore, nreq, ret>>

Next ==
    \/ ReadBlank
    \/ ReadBadJSON
    \/ ReadNonObject
    \/ Notification
    \/ Initialize
    \/ ListTools
    \/ CallTool
    \/ ListResources
    \/ ListPrompts
    \/ MethodNotFound
    \/ NextLine
    \/ EndOfInput

Spec == Init /\ [][Next]_vars

\* ------------------------------------------------------------------------
\*  StringDBBridge called directly: one action per method
\* ------------------------------------------------------------------------
MaxIds == 2
GeneNames == <<"TP53", "MDM2", "BRCA1", "EGFR">>
\* identifier lists of 0..MaxIds names
IdLists == { JList([i \in 1..n |-> JStr(GeneNames[i])]) : n \in 0..MaxIds }
SpeciesOpts == {None, JInt(9606)}
Flags == {JBool(FALSE), JBool(TRUE)}

\* A 2xx response with a JSON body of every kind (array, empty array,
\* object, null, number), a 2xx response that is not JSON, an error status,
\* no response
BridgeOutcomes ==
    { [kind |-> "ok", status |-> 200, body |-> b] :
          b \in {JList(<<Row, Row2>>), JList(<<>>), Row, None, JInt(3)} }
    \cup { [kind |-> "badjson", status |-> 200, body |-> None],
           [kind |-> "status", status |-> 404, body |-> None],
           [kind |-> "conn", status |-> 0, body |-> None] }

\* params handed to _get by a caller, with and without a caller_identity
GetParams ==
    { <<>>,
      Put(<<>>, "identifiers", JText(<<"TP53">>)),
      Put(<<>>, "caller_identity", JStr("my_app")),
      Put(Put(<<>>, "identifiers", JText(<<"TP53">>)), "caller_identity", JStr("my_app")) }

\* The record of one call: the method, its identifiers (None when it takes
\* none), the params given to _get, the outcome of the HTTP request, the result
Called(op, identifiers, params, o, r) ==
    [op |-> op, identifiers |-> identifiers, params |-> params, o |-> o, r |-> r]

\* The server is not running while the bridge is called directly
server == <<request_id, stdout, pc, nread, cur, ev, nbefore, nreq>>

CallGet ==
    \E e \in {"version", "network"}, p \in GetParams, o \in BridgeOutcomes :
        /\ ret' = Called("_get", None, p, o, bridge_get(e, p, o))
        /\ UNCHANGED server

CallMapIdentifiers ==
    \E ids \in IdLists, sp \in SpeciesOpts, echo \in Flags, o \in BridgeOutcomes :
        /\ ret' = Called("map_identifiers", ids, <<>>, o, map_identifiers(ids, sp, echo, o))
        /\ UNCHANGED server

CallNetworkInteractions ==
    \E ids \in IdLists, sp \in SpeciesOpts, n \in {JInt(0), JInt(5)}, o \in BridgeOutcomes :
        /\ ret' = Called("get_network_interactions", ids, <<>>, o,
                         get_network_interactions(ids, sp, None, n, JStr("functional"), o))
        /\ UNCHANGED server

CallFunctionalEnrichment ==
    \E ids \in IdLists, sp \in SpeciesOpts, bg \in {None} \cup IdLists, o \in BridgeOutcomes :
        /\ ret' = Called("get_functional_enrichment", ids, <<>>, o,
                         get_functional_enrichment(ids, sp, bg, o))
        /\ UNCHANGED server

CallVersionInfo ==
    \E o \in BridgeOutcomes :
        /\ ret' = Called("get_version_info", None, <<>>, o, get_version_info(o))
        /\ UNCHANGED server

CallInteractionPartners ==
    \E ids \in IdLists, sp \in SpeciesOpts, lim \in {None, JInt(10)}, o \in BridgeOutcomes :
        /\ ret' = Called("get_interaction_partners", ids, <<>>, o,
                         get_interaction_partners(ids, sp, lim, None, JStr("functional"), o))
        /\ UNCHANGED server

CallHomology ==
    \E ids \in IdLists, sp \in SpeciesOpts, o \in BridgeOutcomes :
        /\ ret' = Called("get_homology", ids, <<>>, o, get_homology(ids, sp, o))
        /\ UNCHANGED server

CallHomologyBest ==
    \E ids \in IdLists, sp \in SpeciesOpts,
       sb \in {None, JList(<<>>), JList(<<JInt(10090)>>)}, o \in BridgeOutcomes :
        /\ ret' = Called("get_homology_best", ids, <<>>, o, get_homology_best(ids, sp, sb, o))
        /\ UNCHANGED server

CallFunctionalAnnotation ==
    \E ids \in IdLists, sp \in SpeciesOpts, ap \in Flags, op \in Flags, o \in BridgeOutcomes :
        /\ ret' = Called("get_functional_annotation", ids, <<>>, o,
                         get_functional_annotation(ids, sp, ap, op, o))
        /\ UNCHANGED server

CallPpiEnrichment ==
    \E ids \in IdLists, sp \in SpeciesOpts, sc \in {None, JInt(400)}, o \in BridgeOutcomes :
        /\ ret' = Called("get_ppi_enrichment", ids, <<>>, o, get_ppi_enrichment(ids, sp, sc, o))
        /\ UNCHANGED server

NetworkImageUrl(ids, sp, hi, svg) ==
    build_network_image_url(ids, sp, None, None, None, JStr("functional"),
                            JStr("evidence"), hi, svg)
EnrichmentFigureUrl(ids, sp, hi, svg) ==
    build_enrichment_figure_url(ids, sp, JStr("Process"), None, None, None, None, hi, svg)

CallBuildNetworkImageUrl ==
    \E ids \in IdLists, sp \in SpeciesOpts, hi \in Flags, svg \in Flags :
        /\ ret' = Called("build_network_image_url", ids, <<>>, NoOutcome,
                         NetworkImageUrl(ids, sp, hi, svg))
        /\ UNCHANGED server

CallBuildEnrichmentFigureUrl ==
    \E ids \in IdLists, hi \in Flags, svg \in Flags :
        /\ ret' = Called("build_enrichment_figure_url", ids, <<>>, NoOutcome,
                         EnrichmentFigureUrl(ids, JInt(9606), hi, svg))
        /\ UNCHANGED server

\* The URLs _download_image is given are the ones the builders return
ImageUrls ==
    { NetworkImageUrl(ids, sp, JBool(TRUE), svg).data :
          ids \in IdLists \ {JList(<<>>)}, sp \in SpeciesOpts, svg \in Flags }
    \cup { EnrichmentFigureUrl(ids, JInt(9606), JBool(FALSE), svg).data :
          ids \in IdLists \ {JList(<<>>)}, svg \in Flags }

CallDownloadImage ==
    \E u \in ImageUrls, o \in BridgeOutcomes \ {x \in BridgeOutcomes : x.kind = "badjson"} :
        /\ ret' = Called("_download_image", None, <<>>, o, download_image(u, o))
        /\ UNCHANGED server

NextBridge ==
    \/ CallGet
    \/ CallMapIdentifiers
    \/ CallNetworkInteractions
    \/ CallFunctionalEnrichment
    \/ CallVersionInfo
    \/ CallInteractionPartners
    \/ CallHomology
    \/ CallHomologyBest
    \/ CallFunctionalAnnotation
    \/ CallPpiEnrichment
    \/ CallBuildNetworkImageUrl
    \/ CallBuildEnrichmentFigureUrl
    \/ CallDownloadImage

SpecBridge == Init /\ [][NextBridge]_vars

\* ------------------------------------------------------------------------
\*  Observations on the line being handled
\* ------------------------------------------------------------------------
Handling == pc \in {"handled", "crashed"}
CurIsMessage == cur.kind = "message"
CurHas(k) == CurIsMessage /\ k \in DOMAIN cur.val[2]
CurField(k) == cur.val[2][k]
CurIsNotification == CurIsMessage /\ (~CurHas("id") \/ CurField("id") = None)
CurIsRequest == CurHas("id") /\ CurField("id") # None
CurMethodIs(m) == CurHas("method") /\ CurField("method") = JStr(m)
\* The members of the line written last
Last == stdout[Len(stdout)][2]
WroteOne == Len(stdout) = nbefore + 1
HttpGets == {i \in 1..Len(ev) : ev[i][1] = "http_get"}

\* ------------------------------------------------------------------------
\*  C1..C5
\* ------------------------------------------------------------------------
\* C1: handling a message whose `id` is absent or null, whatever its method,
\* leaves the number of stdout lines unchanged.
C1_NotificationWritesNothing ==
    CurIsNotification => Len(stdout) = nbefore

\* A tools/call notification was handled after an earlier response
C1_Witness ==
    /\ pc = "handled"
    /\ CurIsNotification
    /\ CurMethodIs("tools/call")
    /\ nbefore > 0

\* C2: every message with a present, non-null `id`, whatever its method and
\* params, gets exactly one response line and that line carries its id.
C2_RequestGetsOneResponse ==
    (Handling /\ CurIsRequest) =>
        (WroteOne /\ Last["id"] = CurField("id"))

\* C3: a tools/call request never ends the loop, whatever its params: it is
\* answered and run goes on to the next line.
C3_CallToolNeverEndsLoop ==
    (Handling /\ CurIsRequest /\ CurMethodIs("tools/call")) =>
        (pc = "handled" /\ WroteOne)

\* C4: every stdout line has exactly one of `result` and `error`, and nothing
\* is written while the current request id is null.
C4_ResultXorError ==
    /\ \A i \in 1..Len(stdout) :
          ("result" \in DOMAIN stdout[i][2]) # ("error" \in DOMAIN stdout[i][2])
    /\ (Handling /\ request_id = None) => Len(stdout) = nbefore
    /\ \A i \in 1..Len(stdout) : stdout[i][2]["id"] # None

\* An error line and a result line are both on stdout
C4_Witness ==
    /\ \E i \in 1..Len(stdout) : "error" \in DOMAIN stdout[i][2]
    /\ \E i \in 1..Len(stdout) : "result" \in DOMAIN stdout[i][2]

\* C5: a request whose method is none of the five handled methods (or is
\* missing) is answered with error code -32601, without `result`, and nothing
\* of the Remote API Client runs.
C5_Methods ==
    {JStr("initialize"), JStr("tools/list"), JStr("tools/call"),
     JStr("resources/list"), JStr("prompts/list")}
C5_UnknownMethodError ==
    (Handling /\ CurIsRequest /\ (~CurHas("method") \/ CurField("method") \notin C5_Methods)) =>
        /\ pc = "handled"
        /\ WroteOne
        /\ "error" \in DOMAIN Last
        /\ "result" \notin DOMAIN Last
        /\ Last["error"][2]["code"] = JInt(-32601)
        /\ Last["id"] = CurField("id")
        /\ ev = <<>>

\* A request without any method was answered
C5_Witness ==
    /\ pc = "handled"
    /\ CurIsRequest
    /\ ~CurHas("method")
    /\ WroteOne

\* ------------------------------------------------------------------------
\*  C6..C10
\* ------------------------------------------------------------------------
CurIsCall == CurIsRequest /\ CurMethodIs("tools/call")
CurParams == IF CurHas("params") THEN CurField("params") ELSE EmptyDict
CurName == Get(CurParams, "name")
CurArgs == GetD(CurParams, "arguments", EmptyDict)
LastResult == Last["result"][2]
LastText == LastResult["content"][2][1][2]["text"][2]
Mentions(toks, w) == \E i \in 1..Len(toks) : toks[i] = w
FailedGets == {i \in HttpGets : ev[i][4] \notin 200..299}

C7_IdentifierTools ==
    (SupportedTools \ {"get_version_info"}) \cup {"get_network_image", "get_enrichment_figure"}
C7_EmptyIdentifiersRejected ==
    (Handling /\ CurIsCall /\ IsDict(CurParams) /\
     CurName \in {JStr(t) : t \in C7_IdentifierTools} /\
     IsDict(CurArgs) /\
     ("identifiers" \notin DOMAIN CurArgs[2] \/ CurArgs[2]["identifiers"] = JList(<<>>))) =>
        /\ WroteOne
        /\ "result" \in DOMAIN Last
        /\ LastResult["isError"] = JBool(TRUE)
        /\ Mentions(LastText, "identifiers")

\* C8: every response to a tools/call request has `result` and no `error`,
\* and isError is true whenever the call failed: unknown tool, unusable
\* arguments, missing identifiers or species, or an HTTP request that did
\* not come back with a success status.
C8_Failed ==
    \/ CurName \notin {JStr(t) : t \in DispatchedTools}
    \/ /\ CurName # JStr("get_version_info")
       /\ \/ ~IsDict(CurArgs)
          \/ ~Truthy(GetD(CurArgs, "identifiers", JList(<<>>)))
          \/ CurName = JStr("get_enrichment_figure") /\ Get(CurArgs, "species") = None
    \/ FailedGets # {}
C8_CallAlwaysResult ==
    (pc = "handled" /\ CurIsCall /\ IsDict(CurParams) /\ Len(stdout) > nbefore) =>
        /\ WroteOne
        /\ "result" \in DOMAIN Last
        /\ "error" \notin DOMAIN Last
        /\ "isError" \in DOMAIN LastResult
        /\ C8_Failed => LastResult["isError"] = JBool(TRUE)

\* A tools/call whose HTTP request came back with an error status was answered
C8_Witness ==
    /\ pc = "handled"
    /\ CurIsCall
    /\ \E i \in FailedGets : ev[i][4] = 404
    /\ WroteOne

\* C9: reading a line that is not JSON, or a blank line, leaves stdout as it
\* was, issues no HTTP request and leaves the loop running; a blank line
\* changes nothing else either.
C9_BadLinesDropped ==
    [][(pc = "idle" /\ cur'.kind \in {"blank", "badjson"}) =>
          /\ stdout' = stdout
          /\ pc' = "handled"
          /\ \A i \in 1..Len(ev') : ev'[i][1] # "http_get"
          /\ cur'.kind = "blank" => (request_id' = request_id /\ ev' = <<>>)]_vars

\* A malformed line was dropped right after a request had been answered
C9_Witness ==
    /\ pc = "handled"
    /\ cur.kind = "badjson"
    /\ nbefore > 0
    /\ Len(stdout) = nbefore

\* C10: the response to an initialize request carries the protocolVersion of
\* its params verbatim when they have one, "2025-03-26" otherwise, and
\* capabilities.tools.executable = true, whatever was handled before.
C10_Expected ==
    IF "protocolVersion" \in DOMAIN CurParams[2] THEN CurParams[2]["protocolVersion"]
    ELSE JStr("2025-03-26")
CurIsListTools == CurIsRequest /\ CurMethodIs("tools/list")
\* The descriptors of the response written last
LastTools == LastResult["tools"][2]
ListedNames == {LastTools[i][2]["name"] : i \in 1..Len(LastTools)}

\* C11: the array returned by tools/list has a descriptor for each of the
\* eleven tools of the tool surface.
C11_ToolSurface ==
    SupportedTools \cup {"get_network_image", "get_enrichment_figure"}
C11_AllToolsListed ==
    (pc = "handled" /\ CurIsListTools /\ WroteOne) =>
        /\ Cardinality(C11_ToolSurface) = 11
        /\ {JStr(t) : t \in C11_ToolSurface} \subseteq ListedNames

\* C12: in every descriptor returned by tools/list, `parameters` and
\* `inputSchema` are both there and equal.
C12_ParametersEqualInputSchema ==
    (pc = "handled" /\ CurIsListTools /\ WroteOne) =>
        \A i \in 1..Len(LastTools) :
            /\ {"parameters", "inputSchema"} \subseteq DOMAIN LastTools[i][2]
            /\ LastTools[i][2]["parameters"] = LastTools[i][2]["inputSchema"]

\* A tools/list request was answered with a non-empty descriptor array
C12_Witness ==
    /\ pc = "handled"
    /\ CurIsListTools
    /\ WroteOne
    /\ Len(LastTools) > 0

\* ------------------------------------------------------------------------
\*  json.loads of a text, for the reader of content[0].text
\* ------------------------------------------------------------------------
\* Numbers a text of the model can hold
NumRange == 0..99
IsNumber(tok) == \E n \in NumRange : ToString(n) = tok
NumberOf(tok) == CHOOSE n \in NumRange : ToString(n) = tok

Parsed(val, next) == [ok |-> TRUE, val |-> val, next |-> next]
ParseError == [ok |-> FALSE, val |-> None, next |-> 0]

\* Index of the quote that closes the string opened before position i
RECURSIVE ClosingQuote(_, _)
ClosingQuote(toks, i) ==
    IF i > Len(toks) THEN 0
    ELSE IF toks[i] = "\"" THEN i ELSE ClosingQuote(toks, i + 1)

ParseString(toks, i) ==
    LET j == ClosingQuote(toks, i + 1)
    IN  IF i > Len(toks) \/ toks[i] # "\"" \/ j = 0 THEN ParseError
        ELSE IF j = i + 2 THEN Parsed(JStr(toks[i + 1]), j + 1)
        ELSE Parsed(JText(SubSeq(toks, i + 1, j - 1)), j + 1)

RECURSIVE ParseValue(_, _)
RECURSIVE ParseItems(_, _, _)
RECURSIVE ParseMembers(_, _, _)
\* The items of an array after "[" or ",": acc holds those parsed so far
ParseItems(toks, i, acc) ==
    LET v == ParseValue(toks, i)
    IN  IF ~v.ok \/ v.next > Len(toks) THEN ParseError
        ELSE IF toks[v.next] = "," THEN ParseItems(toks, v.next + 1, Append(acc, v.val))
        ELSE IF toks[v.next] = "]" THEN Parsed(JList(Append(acc, v.val)), v.next + 1)
        ELSE ParseError
\* The members of an object after "{" or ","
ParseMembers(toks, i, acc) ==
    LET k == ParseString(toks, i)
    IN  IF ~k.ok \/ k.val[1] # "str" \/ k.next > Len(toks) \/ toks[k.next] # ":" THEN ParseError
        ELSE LET v == ParseValue(toks, k.next + 1)
                 f == (k.val[2] :> v.val) @@ acc
             IN  IF ~v.ok \/ v.next > Len(toks) THEN ParseError
                 ELSE IF toks[v.next] = "," THEN ParseMembers(toks, v.next + 1, f)
                 ELSE IF toks[v.next] = "}" THEN Parsed(JObj(f), v.next + 1)
                 ELSE ParseError
ParseValue(toks, i) ==
    IF i > Len(toks) THEN ParseError
    ELSE CASE toks[i] = "null"  -> Parsed(None, i + 1)
           [] toks[i] = "true"  -> Parsed(JBool(TRUE), i + 1)
           [] toks[i] = "false" -> Parsed(JBool(FALSE), i + 1)
           [] toks[i] = "\""    -> ParseString(toks, i)
           [] toks[i] = "["     ->
                IF i < Len(toks) /\ toks[i + 1] = "]" THEN Parsed(JList(<<>>), i + 2)
                ELSE ParseItems(toks, i + 1, <<>>)
           [] toks[i] = "{"     ->
                IF i < Len(toks) /\ toks[i + 1] = "}" THEN Parsed(EmptyDict, i + 2)
                ELSE ParseMembers(toks, i + 1, <<>>)
           [] OTHER ->
                IF IsNumber(toks[i]) THEN Parsed(JInt(NumberOf(toks[i])), i + 1)
                ELSE ParseError

\* json.loads(text): the value, or ParseError when text is not one JSON value
JsonLoads(toks) ==
    LET v == ParseValue(toks, 1)
    IN  IF v.ok /\ v.next = Len(toks) + 1 THEN v ELSE ParseError

\* ------------------------------------------------------------------------
\*  C13..C14: the Tool Call Result
\* ------------------------------------------------------------------------
\* The values handed to _success_payload while cur was handled
DataEvents == {i \in 1..Len(ev) : ev[i][1] = "data"}
LastContent == LastResult["content"]

\* C13: every result of a tools/call response has isError (false on success,
\* true on failure) and a content array of exactly one text block; the text
\* begins with "Error: " on failure and is the serialization of the returned
\* data on success.
C13_ToolCallResultShape ==
    (pc = "handled" /\ CurIsCall /\ WroteOne /\ "result" \in DOMAIN Last) =>
        /\ "isError" \in DOMAIN LastResult
        /\ LastResult["isError"] = JBool(C8_Failed)
        /\ "content" \in DOMAIN LastResult
        /\ IsList(LastContent)
        /\ Len(LastContent[2]) = 1
        /\ DOMAIN LastContent[2][1][2] = {"type", "text"}
        /\ LastContent[2][1][2]["type"] = JStr("text")
        /\ C8_Failed => (Len(LastText) > 0 /\ LastText[1] = "Error:" /\ DataEvents = {})
        /\ ~C8_Failed => /\ Cardinality(DataEvents) = 1
                         /\ \A i \in DataEvents : LastText = JsonDumps(ev[i][2])

\* A failed and, before it, a successful tools/call were answered
C13_Witness ==
    /\ pc = "handled"
    /\ CurIsCall
    /\ WroteOne
    /\ C8_Failed
    /\ nbefore > 0
    /\ "result" \in DOMAIN stdout[1][2]
    /\ "isError" \in DOMAIN stdout[1][2]["result"][2]
    /\ stdout[1][2]["result"][2]["isError"] = JBool(FALSE)

\* C14: for a successful tools/call whose data is an array or object, parsing
\* content[0].text as JSON gives back the data.
C14_TextRoundTrip ==
    (pc = "handled" /\ CurIsCall /\ WroteOne /\ DataEvents # {}) =>
        \A i \in DataEvents :
            (IsList(ev[i][2]) \/ IsDict(ev[i][2])) =>
                /\ JsonLoads(LastText).ok
                /\ JsonLoads(LastText).val = ev[i][2]

\* A successful call returned an array of two rows
C14_Witness ==
    /\ pc = "handled"
    /\ CurIsCall
    /\ WroteOne
    /\ \E i \in DataEvents : ev[i][2] = JList(<<Row, Row2>>)
    /\ LastResult["isError"] = JBool(FALSE)

\* ------------------------------------------------------------------------
\*  C15..C17: pacing, order, retries
\* ------------------------------------------------------------------------
\* C15: every outbound request that completed, with a success or an error
\* status, is followed by a sleep of the configured delay before control
\* returns.
C15_SleepAfterEveryRequest ==
    \A i \in HttpGets :
        ev[i][4] # 0 =>
            \E j \in (i + 1)..Len(ev) : ev[j] = <<"sleep", delay>>

\* C16: lines are handled strictly one after the other: a line is read only
\* at the loop head with nothing of the previous line pending, its response
\* is appended after all earlier responses in the same iteration and carries
\* its id, and HTTP requests and sleeps happen only for the line just read.
C16_StrictlySequential ==
    [][/\ stdout' # stdout =>
            /\ pc = "idle"
            /\ cur'.kind = "message"
            /\ Len(stdout') = Len(stdout) + 1
            /\ SubSeq(stdout', 1, Len(stdout)) = stdout
            /\ stdout'[Len(stdout')][2]["id"] = cur'.val[2]["id"]
       /\ nread' # nread =>
            /\ pc = "idle"
            /\ ev = <<>>
            /\ nread' = nread + 1
            /\ cur'.kind # "none"
       /\ (\E i \in 1..Len(ev') : ev'[i][1] \in {"http_get", "sleep"}) =>
            /\ nread' = nread + 1
            /\ cur'.kind = "message"
       /\ pc' = "idle" => ev' = <<>>]_vars

\* Two requests with different ids were answered, in the order they came
C16_Witness ==
    /\ pc = "handled"
    /\ CurIsRequest
    /\ Len(stdout) = 2
    /\ nbefore = 1
    /\ stdout[1][2]["id"] # stdout[2][2]["id"]
    /\ stdout[2][2]["id"] = CurField("id")
    /\ HttpGets # {}

\* C17: handling one line issues at most one HTTP request, and when that
\* request fails the isError response is written with no request after it.
C17_NoRetries ==
    /\ Cardinality(HttpGets) <= 1
    /\ (pc = "handled" /\ FailedGets # {}) =>
          /\ CurIsCall
          /\ WroteOne
          /\ "result" \in DOMAIN Last
          /\ LastResult["isError"] = JBool(TRUE)
          /\ \A i \in FailedGets : \A j \in (i + 1)..Len(ev) : ev[j][1] # "http_get"

\* A tools/call whose request got no response at all was answered
C17_Witness ==
    /\ pc = "handled"
    /\ CurIsCall
    /\ WroteOne
    /\ \E i \in FailedGets : ev[i][4] = 0

\* ------------------------------------------------------------------------
\*  C18..C20: the bridge methods called directly
\* ------------------------------------------------------------------------
IdentifierOps ==
    {"map_identifiers", "get_network_interactions", "get_functional_enrichment",
     "get_interaction_partners", "get_homology", "get_homology_best",
     "get_functional_annotation", "get_ppi_enrichment",
     "build_network_image_url", "build_enrichment_figure_url"}
UrlBuilders == {"build_network_image_url", "build_enrichment_figure_url"}
PluralOps == IdentifierOps \ (UrlBuilders \cup {"get_ppi_enrichment"})

\* the HTTP requests of the last bridge call
RetGets == {i \in 1..Len(ret.r.ev) : ret.r.ev[i][1] = "http_get"}
RetSleeps == {i \in 1..Len(ret.r.ev) : ret.r.ev[i][1] = "sleep"}

\* C18: an identifier-taking bridge method called with an empty identifier
\* list raises the validation error (ValueError) with no HTTP request issued
\* and no delay slept.
C18_EmptyIdentifiersFailFirst ==
    (ret.op \in IdentifierOps /\ ret.identifiers = JList(<<>>)) =>
        /\ ret.r.exc = "ValueError"
        /\ ret.r.msg = <<"identifiers", "list", "cannot", "be", "empty">>
        /\ RetGets = {}
        /\ RetSleeps = {}

\* The PPI-enrichment method was called with no identifiers while the
\* service would have answered
C18_Witness ==
    /\ ret.op = "get_ppi_enrichment"
    /\ ret.identifiers = JList(<<>>)
    /\ ret.o.kind = "ok"
    /\ ret.r.exc = "ValueError"

\* "caller_identity=<value>" is one of the query parameters of a URL
Carries(toks, v) ==
    \E i \in 1..(Len(toks) - 2) :
        toks[i] = "caller_identity" /\ toks[i + 1] = "=" /\ toks[i + 2] = v

\* C19: every HTTP request carries caller_identity, the configured one
\* unless the caller's params already had one, which is then kept; and
\* every URL an image builder returns carries the configured one.
C19_CallerIdentityCarried ==
    /\ \A i \in RetGets :
         LET g == ret.r.ev[i]
         IN  IF ret.op = "_download_image"
             THEN Carries(g[2], caller_identity)
             ELSE /\ "caller_identity" \in DOMAIN g[3]
                  /\ g[3]["caller_identity"] =
                        IF "caller_identity" \in DOMAIN ret.params
                        THEN ret.params["caller_identity"]
                        ELSE JStr(caller_identity)
    /\ (ret.op \in UrlBuilders /\ ret.r.exc = "none") =>
         Carries(ret.r.data[2], caller_identity)

\* _get was called with params that name another caller, and sent them
C19_Witness ==
    /\ ret.op = "_get"
    /\ "caller_identity" \in DOMAIN ret.params
    /\ ret.params["caller_identity"] # JStr(caller_identity)
    /\ RetGets # {}

\* C20: a plural JSON method returns the decoded body when it is an array
\* and the empty list for any other body; get_version_info returns the
\* one-element list of an object body.
C20_BodyNormalised ==
    (ret.o.kind = "ok" /\ RetGets # {}) =>
        /\ ret.op \in PluralOps =>
             /\ ret.r.exc = "none"
             /\ ret.r.data = IF IsList(ret.o.body) THEN ret.o.body ELSE JList(<<>>)
        /\ (ret.op = "get_version_info" /\ IsDict(ret.o.body)) =>
             /\ ret.r.exc = "none"
             /\ ret.r.data = JList(<<ret.o.body>>)

\* A plural method received a single object and returned the empty list
C20_Witness ==
    /\ ret.op = "get_homology"
    /\ ret.o.kind = "ok"
    /\ IsDict(ret.o.body)
    /\ RetGets # {}
    /\ ret.r.data = JList(<<>>)

\* ------------------------------------------------------------------------
\*  C21..C24: notifications, ids, history, descriptors and dispatch
\* ------------------------------------------------------------------------
\* effects that only a bridge method produces
BridgeEffects == {"http_get", "sleep", "tmpfile", "write", "data"}

\* C21: a message whose id is absent or null never reaches the bridge: no
\* bridge method is invoked, no HTTP request is issued, no delay is slept,
\* and the loop goes on.
C21_NotificationNoRemoteCall ==
    (Handling /\ CurIsNotification) =>
        /\ pc = "handled"
        /\ \A i \in 1..Len(ev) : ev[i][1] \notin BridgeEffects

\* A tools/call for map_identifiers with identifiers, sent without an id
C21_Witness ==
    /\ pc = "handled"
    /\ CurIsNotification
    /\ CurMethodIs("tools/call")
    /\ IsDict(CurParams)
    /\ CurName = JStr("map_identifiers")
    /\ IsDict(CurArgs)
    /\ Truthy(Get(CurArgs, "identifiers"))
    /\ ev = <<>>

\* C22: a line is written to stdout only while a request is handled, it
\* carries the id of that request, the line read last, which is also the id
\* stored in self.request_id, and stdout never has more lines than requests
\* were read; a line that is not JSON clears the stored id.
C22_IdNeverReused ==
    [][/\ stdout' # stdout =>
            /\ cur'.kind = "message"
            /\ request_id_of(cur'.val) # None
            /\ Len(stdout') = Len(stdout) + 1
            /\ stdout'[Len(stdout')][2]["id"] = request_id_of(cur'.val)
            /\ request_id' = request_id_of(cur'.val)
       /\ cur'.kind = "message" => request_id' = request_id_of(cur'.val)
       /\ cur'.kind = "badjson" => request_id' = None
       /\ Len(stdout') <= nreq']_vars

\* A request was answered under its id; the line after it, a message
\* without an id, wrote nothing and left no stored id
C22_Witness ==
    /\ pc = "handled"
    /\ nread = 2
    /\ nreq = 1
    /\ CurIsNotification
    /\ Len(stdout) = 1
    /\ stdout[1][2]["id"] # None
    /\ request_id = None

\* The if/elif chain of run for a message with a non-null id
Dispatch(req, out, o) ==
    LET rid == request_id_of(req)
        method == method_of(req)
        params == params_of(req)
    IN  CASE method = JStr("initialize")     -> handle_initialize(rid, out, params)
          [] method = JStr("tools/list")     -> handle_list_tools(rid, out, params)
          [] method = JStr("tools/call")     -> handle_call_tool(rid, out, params, o)
          [] method = JStr("resources/list") -> handle_list_resources(rid, out, params)
          [] method = JStr("prompts/list")   -> handle_list_prompts(rid, out, params)
          [] OTHER                           -> method_not_found(rid, out, method)

\* Requests whose answers are compared across histories
C23_Requests == {req \in Messages : request_id_of(req) = JStr("0")}

\* What a server that has read nothing yet writes for req
FreshAnswer(req, o) == Dispatch(req, <<>>, o).out

\* What the server writes for req when it is the next line of stdin: the
\* lines the handler adds to stdout, or nothing when run has ended in an
\* exception and stdin is no longer read
AnswerNow(req, o) ==
    IF pc = "crashed" THEN <<>>
    ELSE LET out == Dispatch(req, stdout, o).out
         IN  SubSeq(out, Len(stdout) + 1, Len(out))

\* C23: after any history of lines, the response written for a request
\* line, under the same outcome of the HTTP request, is the one a server
\* that has read no line before writes for it.
C23_HistoryIndependent ==
    (pc \in {"idle", "crashed"}) =>
        \A req \in C23_Requests, o \in HttpOutcomes :
            AnswerNow(req, o) = FreshAnswer(req, o)

\* The same, for the histories after which the loop is still running
C23_WhileRunning ==
    (pc = "idle") =>
        \A req \in C23_Requests, o \in HttpOutcomes :
            AnswerNow(req, o) = FreshAnswer(req, o)

\* The names of the descriptors built by _handle_list_tools
DescriptorNames == {tools[i][2]["name"] : i \in 1..Len(tools)}

\* Tool names put to both handlers: the tool surface and a name that is no tool
C24_Names == {JStr(n) : n \in C11_ToolSurface \cup {"no_such_tool"}}

\* arguments that every dispatched tool accepts
ValidArguments ==
    JObj(("identifiers" :> JList(<<P53>>)) @@ ("species" :> JInt(9606)))

\* The if/elif chain of _handle_call_tool has a branch for the name: the
\* call is not answered by the final else
IsDispatched(name) ==
    \A o \in HttpOutcomes :
        call_tool_body(name, ValidArguments, o) # unknown_tool(name)

\* C24: a tool name is in the array returned by tools/list exactly when
\* tools/call with that name is dispatched to a bridge method instead of
\* being answered with the unknown-tool error result.
C24_DescriptorsAreDispatched ==
    /\ (pc = "handled" /\ CurIsListTools /\ WroteOne) =>
          \A n \in C24_Names : (n \in ListedNames) <=> IsDispatched(n)
    /\ (pc = "handled" /\ CurIsCall /\ IsDict(CurParams) /\ WroteOne) =>
          ((Last["result"] = unknown_tool(CurName).data) <=> (CurName \notin DescriptorNames))

\* A tools/call for a bridge method that has no descriptor was answered
\* with the unknown-tool result
C24_Witness ==
    /\ pc = "handled"
    /\ CurIsCall
    /\ IsDict(CurParams)
    /\ CurName = JStr("get_homology")
    /\ CurName \notin DescriptorNames
    /\ WroteOne
    /\ Last["result"] = unknown_tool(CurName).data

====
